---------------------------- MODULE Spec2Model ----------------------------
(***************************************************************************)
(* A model of the HUD housing connector: the resumable ingestion run of    *)
(* nodes/hud_data.py and the three transforms (fair market rents, income   *)
(* limits, homeless counts) with their validators and publish steps.       *)
(*                                                                         *)
(* Three specifications share the variables of this module:                *)
(*   SpecIngest     run() of nodes/hud_data.py, re-run after completion or *)
(*                  after a process crash at any point;                    *)
(*   SpecTransform  run() of one transform, in the transforms/ package     *)
(*                  layout (sync_data, sync_metadata) or the nodes/ layout *)
(*                  (upload_data), on a raw input drawn from a bounded     *)
(*                  family of workbooks;                                   *)
(*   SpecMain       main() of main.py on a command line drawn from a       *)
(*                  bounded set, each phase being one call that returns or *)
(*                  raises; a transform call that returns has published    *)
(*                  its dataset.                                           *)
(* Each specification keeps the variables of the parts it does not run at  *)
(* their initial values.  get, save_raw_file, load_state and save_state, validate and    *)
(* the publisher calls belong to the subsets_utils library: save_raw_file, *)
(* save_state and the publisher calls are taken to succeed, get may fail.  *)
(***************************************************************************)
EXTENDS Integers, Sequences, FiniteSets, TLC

VARIABLES
    (* ---- ingestion (nodes/hud_data.py) ---- *)
    ipc,        \* position of run(): idle, loop, fetched, saved, done, crashed, raised
    ckpt,       \* the persisted checkpoint: state["completed"] of job hud_housing
    rawStore,   \* the raw store: names of the files save_raw_file has written
    completed,  \* run()'s local set `completed`
    pending,    \* run()'s local list `pending` (keys only)
    idx,        \* 1-based position of the for loop in `pending`
    loaded,     \* history: the checkpoint set load_state returned to this run
    fetchLog,   \* history: keys get() was called for in this run, in call order
    savedRun,   \* history: keys whose bytes this run saved to the raw store
    failedRun,  \* history: keys whose fetch failed in this run
    lostKey,    \* history: key saved but not checkpointed when the last run crashed
    crashCkpt,  \* history: the persisted checkpoint at the moment of the last crash
    (* ---- one transform: run() of transforms/<name>/main.py or nodes/<name>.py ---- *)
    tpc,        \* position of run(): off, start, built, validated, data_published,
                \* done, failed (an exception left run())
    layout,     \* which module is run: "transforms" (package) or "nodes"
    dataset,    \* which transform: fair_market_rents, income_limits, homeless_counts
    input,      \* the raw input the transform reads
    table,      \* run()'s local `table` handed to test() and to the publisher
    published,  \* the downstream store: dataset id -> published table
    publishedMeta, \* the downstream store: dataset id -> published metadata
    pubLog,     \* history: the publisher calls made by run(), in call order
    (* ---- main() of main.py ---- *)
    mpc,        \* position of main(): off, start, parsed, env_ok, ingested,
                \* transforming, done, exit (SystemExit of argparse), raised
    argv,       \* the command line after the program name
    args,       \* the namespace parse_args returned
    todo,       \* the transforms main() has still to call, in call order
    calls       \* history: the run() functions main() has called, in call order

ingestVars == <<ipc, ckpt, rawStore, completed, pending, idx, loaded,
                fetchLog, savedRun, failedRun, lostKey, crashCkpt>>

transformVars == <<tpc, layout, dataset, input, table, published,
                   publishedMeta, pubLog>>

mainVars == <<mpc, argv, args, todo, calls>>

vars == <<ingestVars, transformVars, mainVars>>

NoKey == "none"

Range(s) == {s[j] : j \in 1..Len(s)}

(***************************************************************************)
(* nodes/hud_data.py: the declared datasets, in declaration order.         *)
(***************************************************************************)
DatasetKeys == <<"fmr_2024", "fmr_2025", "income_limits_2024", "pit_2024">>

DeclaredKeys == Range(DatasetKeys)

\* Mutant of Format: every dataset is declared as xlsx.
FormatAllXlsx(k) == "xlsx"

\* DATASETS[k]["format"]
Format(k) == IF k = "pit_2024" THEN "xlsb" ELSE "xlsx"

DeclIndex(k) == CHOOSE j \in 1..Len(DatasetKeys) : DatasetKeys[j] = k

\* save_raw_file(content, f"hud_{dataset_key}", extension=format)
RawFileName(k) == "hud_" \o k \o "." \o Format(k)

\* The outcomes of get(url, timeout=120) followed by raise_for_status().
FetchOutcomes == {"ok", "transport_error", "bad_status"}

\* Mutant of Pending: the checkpoint is ignored and every dataset is pending.
PendingAll(done) == DatasetKeys

\* Mutant of Pending: a dataset whose raw file already exists is skipped too.
PendingSkipsSavedFiles(done) ==
    SelectSeq(DatasetKeys,
              LAMBDA k : k \notin done /\ RawFileName(k) \notin rawStore)

\* pending = [(k, v) for k, v in DATASETS.items() if k not in completed]
Pending(done) == SelectSeq(DatasetKeys, LAMBDA k : k \notin done)

\* completed = set(state.get("completed", []))
LoadCompleted(persisted) == persisted

\* Mutant of SaveState: the write is put off (batched to a later point).
SaveStateDeferred(persisted, inMemory) == persisted

\* save_state("hud_housing", {"completed": list(completed)}): the persisted
\* checkpoint is overwritten by the in-memory set.
SaveState(persisted, inMemory) == inMemory

\* Mutant of SaveRawFile: nothing is written.
SaveRawFileSkipped(store, k) == store

\* save_raw_file(response.content, f"hud_{dataset_key}", extension=format):
\* the raw store holds a file of that name afterwards.
SaveRawFile(store, k) == store \cup {RawFileName(k)}

\* Mutant of HandlerPc: the handler returns from run().
HandlerReturn == "done"

\* Mutant of HandlerPc: the exception leaves run().
HandlerReraise == "raised"

\* except Exception as e: print(...)  -- the loop goes on with the next dataset.
HandlerPc == "loop"

\* Mutant of AfterError: the failed dataset is tried again.
AfterErrorRetry(i) == i

\* The for loop's step after the handler ran.
AfterError(i) == i + 1

IngestInit ==
    /\ ipc = "idle"
    /\ ckpt = {}
    /\ rawStore = {}
    /\ completed = {}
    /\ pending = <<>>
    /\ idx = 1
    /\ loaded = {}
    /\ fetchLog = <<>>
    /\ savedRun = {}
    /\ failedRun = {}
    /\ lostKey = NoKey
    /\ crashCkpt = {}

\* A process starts run(): lines 42-51. A run that finds nothing pending
\* returns at once.
StartRun ==
    /\ ipc \in {"idle", "done", "crashed"}
    /\ completed' = LoadCompleted(ckpt)
    /\ loaded' = ckpt
    /\ pending' = Pending(completed')
    /\ idx' = 1
    /\ ipc' = IF pending' = <<>> THEN "done" ELSE "loop"
    /\ fetchLog' = <<>>
    /\ savedRun' = {}
    /\ failedRun' = {}
    /\ lostKey' = IF ipc = "crashed" THEN lostKey ELSE NoKey
    /\ UNCHANGED <<ckpt, rawStore, crashCkpt>>
    /\ UNCHANGED <<transformVars, mainVars>>

\* Lines 56-58 and 71-72: get() and raise_for_status() for pending[idx], with
\* the given outcome.
FetchWith(outcome) ==
    /\ ipc = "loop"
    /\ idx <= Len(pending)
    /\ fetchLog' = Append(fetchLog, pending[idx])
    /\ IF outcome = "ok"
          THEN /\ ipc' = "fetched"
               /\ UNCHANGED <<idx, failedRun>>
          ELSE /\ ipc' = HandlerPc
               /\ idx' = AfterError(idx)
               /\ failedRun' = failedRun \cup {pending[idx]}
    /\ UNCHANGED <<ckpt, rawStore, completed, pending, loaded, savedRun,
                   lostKey, crashCkpt>>
    /\ UNCHANGED <<transformVars, mainVars>>

Fetch == \E outcome \in FetchOutcomes : FetchWith(outcome)

\* Lines 61-66: save_raw_file(response.content, ...).
SaveRaw ==
    /\ ipc = "fetched"
    /\ rawStore' = SaveRawFile(rawStore, pending[idx])
    /\ savedRun' = savedRun \cup {pending[idx]}
    /\ ipc' = "saved"
    /\ UNCHANGED <<ckpt, completed, pending, idx, loaded, fetchLog, failedRun,
                   lostKey, crashCkpt>>
    /\ UNCHANGED <<transformVars, mainVars>>

\* Lines 68-69: completed.add(dataset_key); save_state(...).
Checkpoint ==
    /\ ipc = "saved"
    /\ completed' = completed \cup {pending[idx]}
    /\ ckpt' = SaveState(ckpt, completed')
    /\ idx' = idx + 1
    /\ ipc' = "loop"
    /\ UNCHANGED <<rawStore, pending, loaded, fetchLog, savedRun, failedRun,
                   lostKey, crashCkpt>>
    /\ UNCHANGED <<transformVars, mainVars>>

\* Line 74: the loop is exhausted and run() returns.
Finish ==
    /\ ipc = "loop"
    /\ idx > Len(pending)
    /\ ipc' = "done"
    /\ UNCHANGED <<ckpt, rawStore, completed, pending, idx, loaded, fetchLog,
                   savedRun, failedRun, lostKey, crashCkpt>>
    /\ UNCHANGED <<transformVars, mainVars>>

\* The process is terminated in the middle of run(): everything in memory is
\* gone, the checkpoint store and the raw store keep what was written.
Crash ==
    /\ ipc \in {"loop", "fetched", "saved"}
    /\ ipc' = "crashed"
    /\ lostKey' = IF ipc = "saved" THEN pending[idx] ELSE NoKey
    /\ crashCkpt' = ckpt
    /\ UNCHANGED <<ckpt, rawStore, completed, pending, idx, loaded, fetchLog,
                   savedRun, failedRun>>
    /\ UNCHANGED <<transformVars, mainVars>>

(***************************************************************************)
(* The transforms.                                                         *)
(*                                                                         *)
(* A spreadsheet cell is an integer, a text or an empty cell (NaN).  A     *)
(* sheet is a short sequence of explicit rows followed by `bulk` further   *)
(* well-formed rows, whose identifiers differ from each other and from     *)
(* those of the explicit rows and whose state codes are the first `states` *)
(* codes of a pool the explicit rows do not use.  A table is a sequence of *)
(* segments in row order: one explicit record, or a run of n well-formed   *)
(* records described by one template record.  The row-count floors of the  *)
(* validators are the program's own numbers.                               *)
(***************************************************************************)
MaxRows == 2

TruncatedRows == 10

\* test.py: "min_rows": 9000,  # ~4764 rows per year x 2 years
FullRows == 4764

\* test.py: "min_rows": 10000,  # ~400 CoCs x 18 years x ~3 shelter types
CocsPerYear == 400

IntCell(v) == [t |-> "int", n |-> v, s |-> ""]

StrCell(x) == [t |-> "str", n |-> 0, s |-> x]

NaNCell == [t |-> "nan", n |-> 0, s |-> ""]

\* Series.astype(str) on one cell.
AsStr(c) == CASE c.t = "int" -> ToString(c.n)
              [] c.t = "str" -> c.s
              [] OTHER -> "nan"

\* Series.astype(int) raises when a cell is empty or is no number.
CanInt(c) == c.t = "int"

AsInt(c) == c.n

\* Mutant of ZFill: the code is left as it was read.
ZFillNone(x, width) == x

RECURSIVE ZFill(_, _)
\* Series.str.zfill(width): zeros go in front, behind a leading sign.
ZFill(x, width) ==
    IF Len(x) >= width THEN x
    ELSE IF Len(x) > 0 /\ SubSeq(x, 1, 1) \in {"+", "-"}
        THEN SubSeq(x, 1, 1) \o ZFill("0" \o SubSeq(x, 2, Len(x)), width - 1)
    ELSE ZFill("0" \o x, width)

\* Sequences over S of length at most n.
SeqsUpTo(S, n) == UNION {[1..k -> S] : k \in 0..n}

Explicit(r) == [bulk |-> FALSE, n |-> 1, states |-> 1, rec |-> r]

BulkRun(cnt, st, template) == [bulk |-> TRUE, n |-> cnt, states |-> st, rec |-> template]

BulkSeg(cnt, st, template) == IF cnt > 0 THEN <<BulkRun(cnt, st, template)>> ELSE <<>>

RECURSIVE SumRows(_)
SumRows(T) == IF T = <<>> THEN 0 ELSE T[1].n + SumRows(Tail(T))

\* len(table)
NumRows(T) == SumRows(T)

ExplicitRecs(T) == SelectSeq(T, LAMBDA g : ~g.bulk)

BulkRuns(T) == SelectSeq(T, LAMBDA g : g.bulk)

MaxOf(S) == IF S = {} THEN 0 ELSE CHOOSE m \in S : \A x \in S : x <= m

\* len(set(table.column("state_code").to_pylist()))
DistinctStates(T) ==
    MaxOf({g.states : g \in Range(BulkRuns(T))})
        + Cardinality({g.rec.state_code : g \in Range(ExplicitRecs(T))})

Digits == {"0", "1", "2", "3", "4", "5", "6", "7", "8", "9"}

AllDigits(x) == Len(x) > 0 /\ \A j \in 1..Len(x) : SubSeq(x, j, j) \in Digits

RECURSIVE ParseNat(_)
\* int(x) for a text of digits
ParseNat(x) ==
    IF Len(x) = 0 THEN 0
    ELSE 10 * ParseNat(SubSeq(x, 1, Len(x) - 1))
           + (CHOOSE d \in 0..9 : SubSeq("0123456789", d + 1, d + 1) = SubSeq(x, Len(x), Len(x)))

\* subsets_utils.testing.assert_valid_year on one value: a 4-digit year.
ValidYear(y) == Len(y) = 4 /\ \A j \in 1..4 : SubSeq(y, j, j) \in Digits

\* The shapes of the well-formed remainder of a sheet: <<rows, state codes>>.
MinStates == 50

BulkShapes == {<<TruncatedRows, TruncatedRows>>,
               <<FullRows \div 2, MinStates + 6>>,
               <<FullRows, MinStates - 1>>,
               <<FullRows, MinStates + 6>>}

\* Mutant of EnoughRows: the row-count floor is not enforced.
EnoughRowsAlways(T, floor) == TRUE

\* validate(table, {..., "min_rows": floor})
EnoughRows(T, floor) == NumRows(T) >= floor

(***************************************************************************)
(* Fair market rents: transforms/fair_market_rents, nodes/fair_market_rents *)
(***************************************************************************)
FmrRow(st, stf, fp, met, p20, p22, f0, f1, f2, f3, f4) ==
    [stusps |-> st, state |-> stf, countyname |-> StrCell("Autauga County"),
     fips |-> fp, hud_area_code |-> StrCell("METRO33860M33860"),
     hud_area_name |-> StrCell("Montgomery, AL MSA"), metro |-> met,
     pop2020 |-> p20, pop2022 |-> p22,
     fmr_0 |-> f0, fmr_1 |-> f1, fmr_2 |-> f2, fmr_3 |-> f3, fmr_4 |-> f4]

\* The explicit rows a rents sheet may hold: a good row, a good row with a
\* short composite code, a row with a zero rent, an empty row, a row with one
\* empty rent cell, a row with an empty composite code.
FmrPalette ==
    { FmrRow(StrCell("AL"), IntCell(1), IntCell(100199999), IntCell(1),
             IntCell(58805), IntCell(59759),
             IntCell(900), IntCell(950), IntCell(1100), IntCell(1400), IntCell(1600)),
      FmrRow(StrCell("CA"), IntCell(6), IntCell(60001), IntCell(0),
             IntCell(1000), IntCell(1100),
             IntCell(1500), IntCell(1700), IntCell(2100), IntCell(2800), IntCell(3200)),
      FmrRow(StrCell("AK"), IntCell(2), IntCell(201399999), IntCell(0),
             IntCell(3300), IntCell(3400),
             IntCell(0), IntCell(950), IntCell(1100), IntCell(1400), IntCell(1600)),
      FmrRow(NaNCell, NaNCell, NaNCell, NaNCell, NaNCell, NaNCell,
             NaNCell, NaNCell, NaNCell, NaNCell, NaNCell),
      FmrRow(StrCell("TX"), IntCell(48), IntCell(480199999), IntCell(1),
             IntCell(21000), IntCell(21500),
             IntCell(800), NaNCell, IntCell(1000), IntCell(1300), IntCell(1500)),
      FmrRow(StrCell("TX"), IntCell(48), NaNCell, IntCell(1),
             IntCell(21000), IntCell(21500),
             IntCell(800), IntCell(850), IntCell(1000), IntCell(1300), IntCell(1500)) }

\* Mutant of PopCol: the alternate name is tried first.
PopColAlternateFirst(cols) == IF "pop2022" \in cols THEN "pop2022" ELSE "pop2020"

\* pop_col = "pop2020" if "pop2020" in df.columns else "pop2022"
PopCol(cols) == IF "pop2020" \in cols THEN "pop2020" ELSE "pop2022"

FmrNumeric(r, pc) == {r.metro, r[pc], r.fmr_0, r.fmr_1, r.fmr_2, r.fmr_3, r.fmr_4}

\* One row of the frame _load_fmr_year returns.
FmrRecord(r, pc, fy) ==
    [state_code |-> AsStr(r.stusps),
     state_fips |-> ZFill(AsStr(r.state), 2),
     county_name |-> AsStr(r.countyname),
     fips |-> ZFill(AsStr(r.fips), 9),
     hud_area_code |-> AsStr(r.hud_area_code),
     hud_area_name |-> AsStr(r.hud_area_name),
     metro |-> AsInt(r.metro),
     fiscal_year |-> fy,
     population |-> AsInt(r[pc]),
     fmr_0br |-> AsInt(r.fmr_0), fmr_1br |-> AsInt(r.fmr_1),
     fmr_2br |-> AsInt(r.fmr_2), fmr_3br |-> AsInt(r.fmr_3),
     fmr_4br |-> AsInt(r.fmr_4)]

FmrTemplate(fy) ==
    [state_code |-> "**", state_fips |-> "**", county_name |-> "*",
     fips |-> "*********", hud_area_code |-> "*", hud_area_name |-> "*",
     metro |-> 1, fiscal_year |-> fy, population |-> 1,
     fmr_0br |-> 1, fmr_1br |-> 1, fmr_2br |-> 1, fmr_3br |-> 1, fmr_4br |-> 1]

\* _load_fmr_year(asset_id, fiscal_year): the frame, or an exception (a missing
\* file, a missing population column, a numeric cell astype(int) rejects).
LoadFmrYear(sheet, fy) ==
    LET pc == PopCol(sheet.popCols)
        ok == /\ sheet.present
              /\ pc \in sheet.popCols
              /\ \A j \in 1..Len(sheet.rows) :
                    \A c \in FmrNumeric(sheet.rows[j], pc) : CanInt(c)
    IN  [ok |-> ok,
         frame |-> IF ok
                     THEN [j \in 1..Len(sheet.rows) |->
                              Explicit(FmrRecord(sheet.rows[j], pc, fy))]
                          \o BulkSeg(sheet.bulk, sheet.states, FmrTemplate(fy))
                     ELSE <<>>]

\* pd.concat([df_2024, df_2025], ignore_index=True)
PdConcat(a, b) == a \o b

\* run() of the rents transform up to `table`.
BuildFmr(inp) ==
    LET a == LoadFmrYear(inp.y2024, "2024")
        b == LoadFmrYear(inp.y2025, "2025")
    IN  [ok |-> a.ok /\ b.ok,
         table |-> IF a.ok /\ b.ok THEN PdConcat(a.frame, b.frame) ELSE <<>>]

FmrMinRows == 9000

\* validate(..., "unique": ["fips", "fiscal_year"]): the runs of well-formed
\* records collide only when two of them come from the same year's file.
FmrUnique(T) ==
    LET e == ExplicitRecs(T)
        b == BulkRuns(T)
    IN  /\ \A j, k \in 1..Len(e) :
              (j # k) => ~(/\ e[j].rec.fips = e[k].rec.fips
                           /\ e[j].rec.fiscal_year = e[k].rec.fiscal_year)
        /\ \A j, k \in 1..Len(b) :
              (j # k) => b[j].rec.fiscal_year # b[k].rec.fiscal_year

\* test(table) of the rents transform: TRUE when it returns, FALSE when it raises.
TestFmr(T) ==
    /\ FmrUnique(T)
    /\ EnoughRows(T, FmrMinRows)
    /\ \A g \in Range(T) : ValidYear(g.rec.fiscal_year)
    /\ {g.rec.fiscal_year : g \in Range(T)} = {"2024", "2025"}
    /\ \A g \in Range(T) :
          /\ g.rec.fmr_0br > 0 /\ g.rec.fmr_1br > 0 /\ g.rec.fmr_2br > 0
          /\ g.rec.fmr_3br > 0 /\ g.rec.fmr_4br > 0
          /\ g.rec.metro \in {0, 1}
    /\ DistinctStates(T) >= MinStates

FmrSheets ==
    {[present |-> TRUE, popCols |-> pcs, rows |-> rs, bulk |-> sh[1], states |-> sh[2]] :
        pcs \in SUBSET {"pop2020", "pop2022"}, rs \in SeqsUpTo(FmrPalette, MaxRows),
        sh \in BulkShapes}

MissingFmrSheet == [present |-> FALSE, popCols |-> {}, rows |-> <<>>, bulk |-> 0, states |-> 0]

PlainFmrSheet(pcs) ==
    [present |-> TRUE, popCols |-> pcs, rows |-> <<>>, bulk |-> FullRows,
     states |-> MinStates + 6]

\* The raw inputs of the rents transform: the FY2024 file varies while the
\* FY2025 file is a plain full one, or is missing, or holds explicit rows.
FmrInputs ==
    {[y2024 |-> a, y2025 |-> PlainFmrSheet({"pop2022"})] :
        a \in FmrSheets \cup {MissingFmrSheet}}
    \cup {[y2024 |-> PlainFmrSheet({"pop2020"}), y2025 |-> b] :
             b \in {x \in FmrSheets \cup {MissingFmrSheet} : x.bulk # TruncatedRows}}
    \cup {[y2024 |-> [PlainFmrSheet({"pop2020", "pop2022"}) EXCEPT !.rows = <<r>>],
           y2025 |-> [PlainFmrSheet({"pop2022"}) EXCEPT !.rows = <<r>>]] : r \in FmrPalette}

(***************************************************************************)
(* Income limits: transforms/income_limits, nodes/income_limits            *)
(***************************************************************************)
Sizes == 1..8

\* A source row whose ELI_n, l50_n and l80_n cells hold e[n], v[n] and l[n].
IlRow(fp, st, met, med, e, v, l) ==
    [fips |-> fp, stusps |-> st, state |-> IntCell(1),
     state_name |-> StrCell("Alabama"),
     hud_area_code |-> StrCell("METRO33860M33860"),
     hud_area_name |-> StrCell("Montgomery, AL MSA"),
     county |-> IntCell(1), County_Name |-> StrCell("Autauga County"),
     metro |-> met, median2024 |-> med,
     ELI |-> [n \in Sizes |-> e[n]], l50 |-> [n \in Sizes |-> v[n]],
     l80 |-> [n \in Sizes |-> l[n]]]

Tier(base) == [n \in Sizes |-> IntCell(base + 1000 * n)]

\* The explicit rows an income-limits sheet may hold: a good row, a row whose
\* tiers are out of order for the 4-person household, a row whose tiers are
\* out of order for the 1-person household only, an empty row, a good row
\* whose codes are texts shorter, and a number longer, than their widths, a
\* row with an empty median income, a row with an empty composite code, a
\* row with a metro flag of 2.
IlPalette ==
    { IlRow(IntCell(100199999), StrCell("AL"), IntCell(1), IntCell(80000),
            Tier(20000), Tier(30000), Tier(50000)),
      IlRow(IntCell(600199999), StrCell("CA"), IntCell(1), IntCell(90000),
            [Tier(20000) EXCEPT ![4] = IntCell(40000)], Tier(30000), Tier(50000)),
      IlRow(IntCell(201399999), StrCell("AK"), IntCell(0), IntCell(85000),
            [Tier(20000) EXCEPT ![1] = IntCell(32000)], Tier(30000), Tier(50000)),
      IlRow(NaNCell, NaNCell, NaNCell, NaNCell,
            [n \in Sizes |-> NaNCell], [n \in Sizes |-> NaNCell],
            [n \in Sizes |-> NaNCell]),
      [IlRow(StrCell("60001"), StrCell("CA"), IntCell(1), IntCell(90000),
             Tier(20000), Tier(30000), Tier(50000))
         EXCEPT !.state = StrCell("6"), !.county = IntCell(1234)],
      IlRow(IntCell(480199999), StrCell("TX"), IntCell(1), NaNCell,
            Tier(20000), Tier(30000), Tier(50000)),
      IlRow(NaNCell, StrCell("TX"), IntCell(1), IntCell(70000),
            Tier(20000), Tier(30000), Tier(50000)),
      IlRow(IntCell(1200199999), StrCell("FL"), IntCell(2), IntCell(60000),
            Tier(20000), Tier(30000), Tier(50000)) }

IlNumeric(r) ==
    {r.metro, r.median2024} \cup {r.ELI[n] : n \in Sizes}
        \cup {r.l50[n] : n \in Sizes} \cup {r.l80[n] : n \in Sizes}

\* One row of `result` in run() of the income-limits transform.
IlRecord(r) ==
    [fips |-> ZFill(AsStr(r.fips), 9),
     state_code |-> AsStr(r.stusps),
     state_fips |-> ZFill(AsStr(r.state), 2),
     state_name |-> AsStr(r.state_name),
     hud_area_code |-> AsStr(r.hud_area_code),
     hud_area_name |-> AsStr(r.hud_area_name),
     county_fips |-> ZFill(AsStr(r.county), 3),
     county_name |-> AsStr(r.County_Name),
     metro |-> AsInt(r.metro),
     fiscal_year |-> "2024",
     median_income |-> AsInt(r.median2024),
     eli |-> [n \in Sizes |-> AsInt(r.ELI[n])],
     vli |-> [n \in Sizes |-> AsInt(r.l50[n])],
     li |-> [n \in Sizes |-> AsInt(r.l80[n])]]

IlTemplate ==
    [fips |-> "*********", state_code |-> "**", state_fips |-> "**",
     state_name |-> "*", hud_area_code |-> "*", hud_area_name |-> "*",
     county_fips |-> "***", county_name |-> "*", metro |-> 1,
     fiscal_year |-> "2024", median_income |-> 1,
     eli |-> [n \in Sizes |-> 1], vli |-> [n \in Sizes |-> 1],
     li |-> [n \in Sizes |-> 1]]

\* run() of the income-limits transform up to `table`.
BuildIl(sheet) ==
    LET ok == /\ sheet.present
              /\ \A j \in 1..Len(sheet.rows) :
                    \A c \in IlNumeric(sheet.rows[j]) : CanInt(c)
        explicit == [j \in 1..Len(sheet.rows) |-> Explicit(IlRecord(sheet.rows[j]))]
        rest == BulkSeg(sheet.bulk, sheet.states, IlTemplate)
    IN  [ok |-> ok,
         table |-> IF ~ok THEN <<>>
                   ELSE IF sheet.atEnd THEN rest \o explicit
                   ELSE explicit \o rest]

IlMinRows == 4500

\* validate(..., "unique": ["fips"])
IlUnique(T) ==
    LET e == ExplicitRecs(T)
    IN  /\ \A j, k \in 1..Len(e) : (j # k) => e[j].rec.fips # e[k].rec.fips
        /\ Len(BulkRuns(T)) <= 1

\* The household size whose columns test() compares.
CheckedSize == 4

\* assert (df["eli_4"] <= df["vli_4"]).all(); assert (df["vli_4"] <= df["li_4"]).all()
IlTiersOrdered(r) ==
    r.eli[CheckedSize] <= r.vli[CheckedSize] /\ r.vli[CheckedSize] <= r.li[CheckedSize]

\* test(table) of the income-limits transform.
TestIl(T) ==
    /\ IlUnique(T)
    /\ EnoughRows(T, IlMinRows)
    /\ \A g \in Range(T) : ValidYear(g.rec.fiscal_year)
    /\ {g.rec.fiscal_year : g \in Range(T)} = {"2024"}
    /\ \A g \in Range(T) :
          /\ g.rec.median_income > 0
          /\ g.rec.eli[CheckedSize] > 0
          /\ g.rec.vli[CheckedSize] > 0
          /\ g.rec.li[CheckedSize] > 0
          /\ IlTiersOrdered(g.rec)
          /\ g.rec.metro \in {0, 1}
    /\ DistinctStates(T) >= MinStates

\* The raw inputs of the income-limits transform: the explicit rows are the
\* first or the last rows of the sheet.
IlInputs ==
    {[present |-> TRUE, rows |-> rs, atEnd |-> FALSE, bulk |-> sh[1], states |-> sh[2]] :
        rs \in SeqsUpTo(IlPalette, MaxRows), sh \in BulkShapes}
    \cup {[present |-> TRUE, rows |-> rs, atEnd |-> TRUE, bulk |-> sh[1], states |-> sh[2]] :
             rs \in SeqsUpTo(IlPalette, MaxRows) \ {<<>>}, sh \in BulkShapes}
    \cup {[present |-> FALSE, rows |-> <<>>, atEnd |-> FALSE, bulk |-> 0, states |-> 0]}

(***************************************************************************)
(* Homeless counts: transforms/homeless_counts, nodes/homeless_counts      *)
(***************************************************************************)
\* Mutant of Years: the range starts one year early.
YearsFrom2006 == 2006..2024

\* YEARS = list(range(2007, 2025))
Years == 2007..2024

\* for shelter_type in ["Overall", "Sheltered", "Unsheltered"]
ShelterTypes == <<"Overall", "Sheltered", "Unsheltered">>

UpperCase == "ABCDEFGHIJKLMNOPQRSTUVWXYZ"

LowerCase == "abcdefghijklmnopqrstuvwxyz"

LowerChar(c) ==
    IF \E j \in 1..26 : SubSeq(UpperCase, j, j) = c
        THEN LET j == CHOOSE k \in 1..26 : SubSeq(UpperCase, k, k) = c
             IN  SubSeq(LowerCase, j, j)
        ELSE c

RECURSIVE Lower(_)
\* str.lower()
Lower(x) == IF Len(x) = 0 THEN ""
            ELSE LowerChar(SubSeq(x, 1, 1)) \o Lower(SubSeq(x, 2, Len(x)))

\* `sub in x` for two strings
Contains(x, sub) ==
    \E j \in 1..(Len(x) - Len(sub) + 1) : SubSeq(x, j, j + Len(sub) - 1) = sub

RECURSIVE Strip(_)
\* str.strip()
Strip(x) ==
    IF Len(x) = 0 THEN x
    ELSE IF SubSeq(x, 1, 1) = " " THEN Strip(SubSeq(x, 2, Len(x)))
    ELSE IF SubSeq(x, Len(x), Len(x)) = " " THEN Strip(SubSeq(x, 1, Len(x) - 1))
    ELSE x

NoCol == ""

\* Mutant of GetCol: the first column, in sheet order, that contains any of
\* the patterns.
GetColByColumnOrder(columns, patterns) ==
    LET hits == SelectSeq(columns,
                          LAMBDA c : \E j \in 1..Len(patterns) :
                                         Contains(Lower(c), Lower(patterns[j])))
    IN  IF hits = <<>> THEN NoCol ELSE hits[1]

\* _get_col(df, patterns): the first pattern some column contains decides,
\* and the first such column in sheet order is returned; None otherwise.
GetCol(columns, patterns) ==
    LET Matching(p) == SelectSeq(columns, LAMBDA c : Contains(Lower(c), Lower(p)))
        hits == {j \in 1..Len(patterns) : Matching(patterns[j]) # <<>>}
    IN  IF hits = {} THEN NoCol
        ELSE Matching(patterns[CHOOSE j \in hits : \A k \in hits : j <= k])[1]

\* _extract_shelter_type, lines 82-90
Prefix(shelterType) ==
    IF shelterType = "Overall" THEN "Overall Homeless" ELSE shelterType

CountFields == <<"total", "under_18", "age_18_to_24", "over_24", "individuals",
                 "people_in_families", "veterans", "chronically_homeless">>

\* _extract_shelter_type, lines 92-100: the two patterns of each count field.
Patterns(p, field) ==
    CASE field = "total" -> <<p \o " Homeless", p>>
      [] field = "under_18" -> <<p \o " Homeless - Under 18", p \o " - Under 18">>
      [] field = "age_18_to_24" -> <<p \o " Homeless - Age 18 to 24", p \o " - 18 to 24">>
      [] field = "over_24" -> <<p \o " Homeless - Over 24", p \o " - Over 24">>
      [] field = "individuals" ->
            <<p \o " Homeless - Homeless Individuals", p \o " - Individuals">>
      [] field = "people_in_families" ->
            <<p \o " Homeless - Homeless People in Families", p \o " - Families">>
      [] field = "veterans" -> <<p \o " Homeless - Veterans", p \o " Veterans">>
      [] field = "chronically_homeless" ->
            <<p \o " Homeless - Chronically Homeless", p \o " Chronically">>

\* The header rows a year's sheet may have.
PitHeaders ==
    { <<"CoC Number", "CoC Name", "Overall Homeless", "Sheltered Total Homeless",
        "Unsheltered Homeless", "Overall Homeless - Under 18",
        "Overall Homeless Veterans">>,
      <<"CoC Number", "CoC Name", "Overall Homeless">>,
      <<"CoC Number", "CoC Name", "Total Homeless">>,
      <<"CoC Number", "CoC Name", "OVERALL HOMELESS", "Sheltered Total",
        "Sheltered Homeless">> }

PitColumns == UNION {Range(h) : h \in PitHeaders}

\* The columns _extract_shelter_type resolves, per header row and shelter type.
ResolvedCols ==
    [h \in PitHeaders |->
        [t \in Range(ShelterTypes) |->
            [f \in Range(CountFields) |-> GetCol(h, Patterns(Prefix(t), f))]]]

\* A source row: its CoC cells and one cell per count column. The numbers of
\* one row differ from column to column (by the length of the column's name),
\* so that a record shows which column each count was read from.
PitRow(coc, name, cell) ==
    [coc |-> coc, name |-> name,
     cells |-> [c \in PitColumns |->
                   IF cell.t = "int" THEN IntCell(cell.n + Len(c)) ELSE cell]]

\* The explicit rows a year's sheet may hold: a CoC row, the same CoC with a
\* padded number, an empty row, a CoC row without counts, a footer row.
PitPalette ==
    { PitRow(StrCell("AK-500"), StrCell("Anchorage CoC"), IntCell(120)),
      PitRow(StrCell(" AK-500"), StrCell("Anchorage CoC"), IntCell(7)),
      PitRow(NaNCell, NaNCell, NaNCell),
      PitRow(StrCell("AK-501"), StrCell("Alaska Balance of State CoC"), NaNCell),
      PitRow(StrCell("Total"), NaNCell, IntCell(5000)) }

\* _safe_int(val): a one-element sequence, or <<>> for None. int(val) reads
\* a text of digits (spaces around it allowed) and raises ValueError on any
\* other text.
SafeInt(c) ==
    CASE c.t = "int" -> <<c.n>>
      [] c.t = "str" /\ AllDigits(Strip(c.s)) -> <<ParseNat(Strip(c.s))>>
      [] OTHER -> <<>>

\* `not coc_number or pd.isna(coc_number)`
NoIdentifier(c) ==
    \/ c.t = "nan"
    \/ c.t = "str" /\ c.s = ""
    \/ c.t = "int" /\ c.n = 0

PitRecord(r, cols, year, shelterType) ==
    [coc_number |-> Strip(AsStr(r.coc)),
     coc_name |-> IF NoIdentifier(r.name) THEN "" ELSE Strip(AsStr(r.name)),
     year |-> ToString(year),
     count_type |-> shelterType,
     counts |-> [f \in Range(CountFields) |->
                    IF cols[f] = NoCol THEN <<>> ELSE SafeInt(r.cells[cols[f]])]]

PitTemplate(cols, year, shelterType) ==
    [coc_number |-> "**-***", coc_name |-> "*", year |-> ToString(year),
     count_type |-> shelterType,
     counts |-> [f \in Range(CountFields) |-> IF cols[f] = NoCol THEN <<>> ELSE <<1>>]]

\* The sheets of a workbook that hold the explicit rows (before their
\* well-formed rows); every other sheet holds well-formed rows only.
ExplicitSheets == {"2008", "2024"}

\* The explicit rows of the sheet of `year`.
SheetRows(book, year) ==
    IF ToString(year) \in ExplicitSheets THEN book.rows ELSE <<>>

\* _extract_shelter_type(df, year, shelter_type): rows without an identifier
\* and rows without a total yield no record.
ExtractShelterType(book, year, shelterType) ==
    LET cols == ResolvedCols[book.header][shelterType]
        kept == SelectSeq(SheetRows(book, year),
                          LAMBDA r : /\ ~NoIdentifier(r.coc)
                                     /\ PitRecord(r, cols, year, shelterType).counts["total"] # <<>>)
    IN  [j \in 1..Len(kept) |-> Explicit(PitRecord(kept[j], cols, year, shelterType))]
        \o (IF cols["total"] = NoCol THEN <<>>
            ELSE BulkSeg(book.bulk, book.bulk, PitTemplate(cols, year, shelterType)))

\* Mutant of Extend: a record whose key is already in the list is dropped.
ExtendDropDuplicates(rows, more) ==
    LET all == rows \o more
        keep == {j \in 1..Len(all) :
                    all[j].bulk \/
                    ~\E k \in 1..(j - 1) :
                        /\ ~all[k].bulk
                        /\ all[k].rec.coc_number = all[j].rec.coc_number
                        /\ all[k].rec.year = all[j].rec.year
                        /\ all[k].rec.count_type = all[j].rec.count_type}
        F[j \in 0..Len(all)] ==
            IF j = 0 THEN <<>>
            ELSE IF j \in keep THEN Append(F[j - 1], all[j]) ELSE F[j - 1]
    IN  F[Len(all)]

\* Mutant of Extend: the new records go in front.
ExtendAtFront(rows, more) == more \o rows

\* year_rows.extend(rows); all_rows.extend(year_rows)
Extend(rows, more) == rows \o more

\* The body of `for year in YEARS`: a year without a sheet is skipped.
YearRows(book, year) ==
    IF ToString(year) \notin book.sheets THEN <<>>
    ELSE LET F[j \in 0..Len(ShelterTypes)] ==
                 IF j = 0 THEN <<>>
                 ELSE Extend(F[j - 1], ExtractShelterType(book, year, ShelterTypes[j]))
         IN  F[Len(ShelterTypes)]

RECURSIVE AllRows(_, _)
\* The loop `for year in YEARS` from `year` on.
AllRows(book, year) ==
    IF year \notin Years THEN <<>>
    ELSE Extend(YearRows(book, year), AllRows(book, year + 1))

FirstYear == CHOOSE y \in Years : \A z \in Years : y <= z

\* run() of the homeless-counts transform up to `table`.
BuildPit(book) ==
    [ok |-> book.present,
     table |-> IF book.present THEN AllRows(book, FirstYear) ELSE <<>>]

PitMinRows == 10000

MinCocs == 300

SampleSize == 10

\* validate(..., "unique": ["coc_number", "year", "count_type"])
PitUnique(T) ==
    LET e == ExplicitRecs(T)
        b == BulkRuns(T)
        Same(x, y) == /\ x.rec.coc_number = y.rec.coc_number
                      /\ x.rec.year = y.rec.year
                      /\ x.rec.count_type = y.rec.count_type
    IN  /\ \A j, k \in 1..Len(e) : (j # k) => ~Same(e[j], e[k])
        /\ \A j, k \in 1..Len(b) :
              (j # k) => ~(b[j].rec.year = b[k].rec.year
                           /\ b[j].rec.count_type = b[k].rec.count_type)

\* The number of rows before segment j of T.
RowsBefore(T, j) == SumRows(SubSeq(T, 1, j - 1))

\* Mutant of Sample: every record is looked at.
SampleAll(T) == {g.rec : g \in Range(ExplicitRecs(T))}

\* sample = coc_numbers[:10]: the explicit records among the first rows.
Sample(T) == {T[j].rec : j \in {k \in 1..Len(T) : ~T[k].bulk /\ RowsBefore(T, k) < SampleSize}}

\* len(set(coc_numbers))
DistinctCocs(T) ==
    MaxOf({g.n : g \in Range(BulkRuns(T))})
        + Cardinality({g.rec.coc_number : g \in Range(ExplicitRecs(T))})

\* assert "2024" in years; assert "2007" in years or "2008" in years
PitYearsCovered(years) == "2024" \in years /\ ("2007" \in years \/ "2008" \in years)

\* test(table) of the homeless-counts transform.
TestPit(T) ==
    /\ T # <<>>
    /\ \A g \in Range(T) : g.rec.counts["total"] # <<>>
    /\ PitUnique(T)
    /\ EnoughRows(T, PitMinRows)
    /\ \A g \in Range(T) : ValidYear(g.rec.year)
    /\ PitYearsCovered({g.rec.year : g \in Range(T)})
    /\ \A g \in Range(T) : g.rec.count_type \in {"Overall", "Sheltered", "Unsheltered"}
    /\ \A r \in Sample(T) : Len(r.coc_number) >= 6 /\ Contains(r.coc_number, "-")
    /\ DistinctCocs(T) >= MinCocs

AllSheets == {ToString(y) : y \in 2007..2024}

\* The sets of sheets a workbook may hold.
SheetSets ==
    { AllSheets,
      AllSheets \ {"2007"},
      AllSheets \ {"2007", "2008"},
      AllSheets \ {"2024"},
      AllSheets \cup {"2006", "Revisions"} }

PitInputs ==
    {[present |-> TRUE, sheets |-> ss, header |-> h, rows |-> rs, bulk |-> n] :
        ss \in SheetSets, h \in PitHeaders, rs \in SeqsUpTo(PitPalette, MaxRows),
        n \in {TruncatedRows, CocsPerYear}}
    \cup {[present |-> FALSE, sheets |-> {}, header |-> <<>>, rows |-> <<>>, bulk |-> 0]}

(***************************************************************************)
(* run() of a transform: build the table, test it, publish it.             *)
(***************************************************************************)
Transforms == {"fair_market_rents", "income_limits", "homeless_counts"}

Layouts == {"transforms", "nodes"}

\* DATASET_ID of each module.
DatasetId(d) == "hud_" \o d

\* METADATA of each module (the descriptions are left out, the columns are
\* the keys of column_descriptions).
Metadata(d) ==
    CASE d = "fair_market_rents" ->
            [id |-> DatasetId(d), title |-> "HUD Fair Market Rents",
             source |-> "HUD Office of Policy Development and Research",
             source_url |-> "https://www.huduser.gov/portal/datasets/fmr.html",
             column_descriptions |->
                <<"state_code", "state_fips", "county_name", "fips", "hud_area_code",
                  "hud_area_name", "metro", "fiscal_year", "population", "fmr_0br",
                  "fmr_1br", "fmr_2br", "fmr_3br", "fmr_4br">>]
      [] d = "income_limits" ->
            [id |-> DatasetId(d), title |-> "HUD Income Limits",
             source |-> "HUD Office of Policy Development and Research",
             source_url |-> "https://www.huduser.gov/portal/datasets/il.html",
             column_descriptions |->
                <<"fips", "state_code", "state_fips", "state_name", "hud_area_code",
                  "hud_area_name", "county_fips", "county_name", "metro",
                  "fiscal_year", "median_income">>
                \o [n \in 1..8 |-> "eli_" \o ToString(n)]
                \o [n \in 1..8 |-> "vli_" \o ToString(n)]
                \o [n \in 1..8 |-> "li_" \o ToString(n)]]
      [] d = "homeless_counts" ->
            [id |-> DatasetId(d), title |-> "HUD Point-in-Time Homeless Counts",
             source |-> "HUD Office of Community Planning and Development",
             source_url |->
                "https://www.hudexchange.info/resource/3031/pit-and-hic-data-since-2007/",
             column_descriptions |->
                <<"coc_number", "coc_name", "year", "count_type", "total", "under_18",
                  "age_18_to_24", "over_24", "individuals", "people_in_families",
                  "veterans", "chronically_homeless">>]

\* What the downstream store holds before the run: the last published version.
PriorVersion == [version |-> "prior", table |-> <<>>]

PriorMetadata == [id |-> "prior"]

\* load_raw_file(name, extension=ext): the raw file of that name and
\* extension, as save_raw_file names it.
LoadRawFile(name, ext) == name \o "." \o ext

\* _load_fmr_year: Path(get_data_dir()) / "raw" / f"{asset_id}.xlsx"
FmrAssetFile(assetId) == assetId \o ".xlsx"

\* The raw files run() of the rents transform reads, in either layout.
FmrFiles == {FmrAssetFile("hud_fmr_2024"), FmrAssetFile("hud_fmr_2025")}

\* The raw file run() of the income limits transform reads.
IlFiles(l) ==
    IF l = "transforms" THEN {LoadRawFile("hud_income_limits_2024", "xlsx")}
    ELSE {"hud_income_limits_2024.xlsx"}

\* The raw file run() of the homeless counts transform reads.
PitFiles(l) ==
    IF l = "transforms" THEN {LoadRawFile("hud_pit_2024", "xlsb")}
    ELSE {"hud_pit_2024.xlsb"}

InputsOf(d) ==
    CASE d = "fair_market_rents" -> FmrInputs
      [] d = "income_limits" -> IlInputs
      [] d = "homeless_counts" -> PitInputs

\* run() from its first line to `table`.
BuildTable(d, inp) ==
    CASE d = "fair_market_rents" -> BuildFmr(inp)
      [] d = "income_limits" -> BuildIl(inp)
      [] d = "homeless_counts" -> BuildPit(inp)

\* test(table) of the module of dataset d.
TestOf(d, T) ==
    CASE d = "fair_market_rents" -> TestFmr(T)
      [] d = "income_limits" -> TestIl(T)
      [] d = "homeless_counts" -> TestPit(T)

\* Mutant of AfterTest: a failed validation is reported and the run goes on.
AfterTestGoesOn(ok) == "validated"

\* test(table) returns, or raises and so ends run().
AfterTest(ok) == IF ok THEN "validated" ELSE "failed"

\* The publisher call of each layout: sync_data(table, DATASET_ID,
\* mode="overwrite") or upload_data(table, DATASET_ID, mode="overwrite").
DataCall(l) == IF l = "transforms" THEN "sync_data" ELSE "upload_data"

TransformOff ==
    /\ tpc = "off"
    /\ layout = "transforms"
    /\ dataset = "fair_market_rents"
    /\ input = <<>>
    /\ table = <<>>
    /\ published = [d \in Transforms |-> PriorVersion]
    /\ publishedMeta = [d \in Transforms |-> PriorMetadata]
    /\ pubLog = <<>>

TransformInit ==
    /\ tpc = "start"
    /\ layout \in Layouts
    /\ dataset \in Transforms
    /\ input \in InputsOf(dataset)
    /\ table = <<>>
    /\ published = [d \in Transforms |-> PriorVersion]
    /\ publishedMeta = [d \in Transforms |-> PriorMetadata]
    /\ pubLog = <<>>

\* run() reads the raw file(s) and builds `table`; an exception ends run().
Build ==
    /\ tpc = "start"
    /\ LET res == BuildTable(dataset, input)
       IN  /\ tpc' = IF res.ok THEN "built" ELSE "failed"
           /\ table' = res.table
    /\ UNCHANGED <<layout, dataset, input, published, publishedMeta, pubLog>>
    /\ UNCHANGED <<ingestVars, mainVars>>

\* test(table)
Test ==
    /\ tpc = "built"
    /\ tpc' = AfterTest(TestOf(dataset, table))
    /\ UNCHANGED <<layout, dataset, input, table, published, publishedMeta, pubLog>>
    /\ UNCHANGED <<ingestVars, mainVars>>

\* sync_data(table, DATASET_ID, mode="overwrite") in transforms/*/main.py,
\* upload_data(table, DATASET_ID, mode="overwrite"), the last statement of
\* run(), in nodes/*.py.
PublishData ==
    /\ tpc = "validated"
    /\ published' = [published EXCEPT
                        ![dataset] = [version |-> "run", table |-> table]]
    /\ pubLog' = Append(pubLog, [call |-> DataCall(layout),
                                 id |-> DatasetId(dataset), mode |-> "overwrite"])
    /\ tpc' = IF layout = "transforms" THEN "data_published" ELSE "done"
    /\ UNCHANGED <<layout, dataset, input, table, publishedMeta>>
    /\ UNCHANGED <<ingestVars, mainVars>>

\* sync_metadata(DATASET_ID, METADATA), transforms/*/main.py only.
PublishMetadata ==
    /\ tpc = "data_published"
    /\ layout = "transforms"
    /\ publishedMeta' = [publishedMeta EXCEPT ![dataset] = Metadata(dataset)]
    /\ pubLog' = Append(pubLog, [call |-> "sync_metadata",
                                 id |-> DatasetId(dataset), mode |-> ""])
    /\ tpc' = "done"
    /\ UNCHANGED <<layout, dataset, input, table, published>>
    /\ UNCHANGED <<ingestVars, mainVars>>

TransformNext ==
    \/ Build
    \/ Test
    \/ PublishData
    \/ PublishMetadata



(***************************************************************************)
(* main() of main.py.  The command line is a short sequence of tokens; a   *)
(* phase is one call of a run() function, which returns or raises.         *)
(***************************************************************************)
MaxArgs == 2

\* The tokens a command line is made of: the two flags, an abbreviated flag,
\* an unknown flag, the three transform names, an unknown name.
Tokens == {"--ingest-only", "--transform-only", "--ingest", "--verbose",
           "fair_market_rents", "income_limits", "homeless_counts", "bogus"}

\* choices=["fair_market_rents", "income_limits", "homeless_counts"]
Choices == <<"fair_market_rents", "income_limits", "homeless_counts">>

\* The keys of the dict `transforms`, in insertion order.
TransformOrder == <<"fair_market_rents", "income_limits", "homeless_counts">>

NoTransform == "none"

IsOption(tok) == Len(tok) > 0 /\ SubSeq(tok, 1, 1) = "-"

\* argparse accepts an unambiguous prefix of a long option.
Abbreviates(tok, flag) ==
    Len(tok) > 2 /\ Len(tok) <= Len(flag) /\ SubSeq(flag, 1, Len(tok)) = tok

\* parser.parse_args(): the namespace, or SystemExit(2) on an unknown option,
\* a name outside the choices or a second positional argument.
ParseArgs(line) ==
    LET opts == SelectSeq(line, IsOption)
        pos == SelectSeq(line, LAMBDA tok : ~IsOption(tok))
        Known(tok) == Abbreviates(tok, "--ingest-only") \/ Abbreviates(tok, "--transform-only")
        ok == /\ \A j \in 1..Len(opts) : Known(opts[j])
              /\ Len(pos) <= 1
              /\ \A j \in 1..Len(pos) : pos[j] \in Range(Choices)
    IN  [ok |-> ok,
         ingest_only |-> ok /\ \E j \in 1..Len(opts) : Abbreviates(opts[j], "--ingest-only"),
         transform_only |->
             ok /\ \E j \in 1..Len(opts) : Abbreviates(opts[j], "--transform-only"),
         transform |-> IF ok /\ pos # <<>> THEN pos[1] ELSE NoTransform]

NoArgs == [ok |-> FALSE, ingest_only |-> FALSE, transform_only |-> FALSE,
           transform |-> NoTransform]

\* should_ingest = not args.transform_only and not args.transform
ShouldIngest(a) == ~a.transform_only /\ a.transform = NoTransform

\* Mutant of ShouldTransform: the transform phase is always entered.
ShouldTransformAlways(a) == TRUE

\* should_transform = not args.ingest_only
ShouldTransform(a) == ~a.ingest_only

\* The outcomes of one call of a run() function or of validate_environment().
CallOutcomes == {"returned", "raised"}

MainOff ==
    /\ mpc = "off"
    /\ argv = <<>>
    /\ args = NoArgs
    /\ todo = <<>>
    /\ calls = <<>>

MainInit ==
    /\ mpc = "start"
    /\ argv \in SeqsUpTo(Tokens, MaxArgs)
    /\ args = NoArgs
    /\ todo = <<>>
    /\ calls = <<>>

\* Line 38: args = parser.parse_args()
Parse ==
    /\ mpc = "start"
    /\ args' = ParseArgs(argv)
    /\ mpc' = IF args'.ok THEN "parsed" ELSE "exit"
    /\ UNCHANGED <<argv, todo, calls>>
    /\ UNCHANGED <<ingestVars, transformVars>>

\* Line 40: validate_environment()
ValidateEnvironment ==
    /\ mpc = "parsed"
    /\ \E outcome \in CallOutcomes :
          mpc' = IF outcome = "returned" THEN "env_ok" ELSE "raised"
    /\ UNCHANGED <<argv, args, todo, calls>>
    /\ UNCHANGED <<ingestVars, transformVars>>

\* Lines 45-47: if should_ingest: ingest_hud.run(). The ingestion run catches
\* the errors of its fetches and returns.
IngestPhase ==
    /\ mpc = "env_ok"
    /\ calls' = IF ShouldIngest(args) THEN Append(calls, "ingest") ELSE calls
    /\ mpc' = "ingested"
    /\ UNCHANGED <<argv, args, todo>>
    /\ UNCHANGED <<ingestVars, transformVars>>

\* Lines 49-61: if should_transform: the named transform, or every transform
\* of the dict in order.
TransformPhase ==
    /\ mpc = "ingested"
    /\ IF ShouldTransform(args)
          THEN /\ todo' = IF args.transform # NoTransform THEN <<args.transform>>
                          ELSE TransformOrder
               /\ mpc' = "transforming"
          ELSE /\ todo' = <<>>
               /\ mpc' = "done"
    /\ UNCHANGED <<argv, args, calls>>
    /\ UNCHANGED <<ingestVars, transformVars>>

\* What a call of transforms/<d>/main.py's run() that returned has left in
\* the downstream store: its table (whose rows are not followed in main())
\* and its metadata, by sync_data and sync_metadata.
PublishedByRun == [version |-> "run", table |-> <<>>]

PublisherCalls(d) ==
    <<[call |-> DataCall("transforms"), id |-> DatasetId(d), mode |-> "overwrite"],
      [call |-> "sync_metadata", id |-> DatasetId(d), mode |-> ""]>>

\* Mutant of AfterRaise: main() catches the exception and goes on with the
\* next transform.
AfterRaiseGoesOn(rest) == [pc |-> "transforming", todo |-> Tail(rest)]

\* Lines 59 and 63 stand in no try block: an exception of run() leaves the
\* loop and main().
AfterRaise(rest) == [pc |-> "raised", todo |-> rest]

\* Lines 59 and 63: transforms[...].run() / module.run(). A run() that
\* returns has published its dataset; a run() that raises (unreadable raw
\* file, failed test) has published nothing.
RunTransform ==
    /\ mpc = "transforming"
    /\ todo # <<>>
    /\ calls' = Append(calls, Head(todo))
    /\ \E outcome \in CallOutcomes :
          IF outcome = "returned"
            THEN /\ todo' = Tail(todo)
                 /\ mpc' = "transforming"
                 /\ published' = [published EXCEPT ![Head(todo)] = PublishedByRun]
                 /\ publishedMeta' = [publishedMeta EXCEPT
                                         ![Head(todo)] = Metadata(Head(todo))]
                 /\ pubLog' = pubLog \o PublisherCalls(Head(todo))
            ELSE /\ todo' = AfterRaise(todo).todo
                 /\ mpc' = AfterRaise(todo).pc
                 /\ UNCHANGED <<published, publishedMeta, pubLog>>
    /\ UNCHANGED <<argv, args>>
    /\ UNCHANGED <<tpc, layout, dataset, input, table>>
    /\ UNCHANGED ingestVars

\* main() returns.
Return ==
    /\ mpc = "transforming"
    /\ todo = <<>>
    /\ mpc' = "done"
    /\ UNCHANGED <<argv, args, todo, calls>>
    /\ UNCHANGED <<ingestVars, transformVars>>

MainNext ==
    \/ Parse
    \/ ValidateEnvironment
    \/ IngestPhase
    \/ TransformPhase
    \/ RunTransform
    \/ Return

(***************************************************************************)
(* The three specifications.                                               *)
(***************************************************************************)
IngestNext ==
    \/ StartRun
    \/ Fetch
    \/ SaveRaw
    \/ Checkpoint
    \/ Finish
    \/ Crash

\* Ingestion alone: no transform runs.
InitIngestOnly == IngestInit /\ TransformOff /\ MainOff

SpecIngest == InitIngestOnly /\ [][IngestNext]_vars

\* Ingestion re-run for ever: run() is started again whenever it has returned
\* or its process has died; a step that run() reaches again and again is at
\* some time taken before the process dies; and a dataset whose fetch is
\* attempted again and again is fetched successfully at some attempt.
IngestFairness ==
    /\ WF_vars(StartRun)
    /\ SF_vars(Fetch)
    /\ SF_vars(SaveRaw)
    /\ SF_vars(Checkpoint)
    /\ SF_vars(Finish)
    /\ \A k \in DeclaredKeys :
          SF_vars(FetchWith("ok") /\ pending[idx] = k)

SpecIngestLive == InitIngestOnly /\ [][IngestNext]_vars /\ IngestFairness

\* One transform alone: the ingestion is idle.
InitTransformOnly == IngestInit /\ TransformInit /\ MainOff

SpecTransform == InitTransformOnly /\ [][TransformNext]_vars

\* main() alone, its phases taken as calls.
InitMainOnly == IngestInit /\ TransformOff /\ MainInit

SpecMain == InitMainOnly /\ [][MainNext]_vars

(***************************************************************************)
(* Properties of the ingestion run.                                        *)
(***************************************************************************)

\* C1: a run that loaded a checkpoint holding every declared dataset key
\* calls get() for no dataset and returns.
C1_NoFetchWhenComplete ==
    DeclaredKeys \subseteq loaded => (fetchLog = <<>> /\ ipc = "done")

C1_Witness ==
    /\ ipc = "done"
    /\ DeclaredKeys \subseteq loaded
    /\ fetchLog = <<>>

\* C2: a run that loaded a strict subset of the declared keys fetches only
\* keys missing from the loaded checkpoint, each at most once and in declared
\* order, starts a fetch only when the previous one is settled (checkpointed
\* or failed), and has fetched every missing key when it returns.
C2_FetchMissingOnceInOrder ==
    (loaded \subseteq DeclaredKeys /\ loaded # DeclaredKeys) =>
        /\ \A j \in 1..Len(fetchLog) : fetchLog[j] \in DeclaredKeys \ loaded
        /\ \A j, k \in 1..Len(fetchLog) :
              j < k => DeclIndex(fetchLog[j]) < DeclIndex(fetchLog[k])
        /\ \A j \in 1..(Len(fetchLog) - 1) : fetchLog[j] \in ckpt \cup failedRun
        /\ (ipc = "done" => Range(fetchLog) = DeclaredKeys \ loaded)

C2_Witness ==
    /\ ipc = "done"
    /\ loaded # {}
    /\ loaded # DeclaredKeys
    /\ Len(fetchLog) >= 2

\* C3: a crash never removes a key from the persisted checkpoint, and the key
\* whose bytes were saved but not yet checkpointed when the process crashed is
\* absent from the checkpoint the next run loads, is pending in that run and
\* has been fetched again when that run returns.
C3_CrashRefetches ==
    /\ crashCkpt \subseteq ckpt
    /\ (ipc = "crashed" /\ lostKey # NoKey) =>
            (lostKey \notin ckpt /\ RawFileName(lostKey) \in rawStore)
    /\ (lostKey # NoKey /\ ipc \in {"loop", "fetched", "saved", "done"}) =>
            /\ lostKey \notin loaded
            /\ crashCkpt \subseteq loaded
            /\ lostKey \in Range(pending)
            /\ (ipc = "done" => lostKey \in Range(fetchLog))

C3_Witness ==
    /\ ipc = "done"
    /\ lostKey # NoKey
    /\ lostKey \in Range(fetchLog)
    /\ crashCkpt # {}

\* C4: at every point of a run at most one dataset saved to the raw store in
\* this run is absent from the persisted checkpoint, and none is whenever the
\* run stands between two datasets or has returned.
C4_AtMostOneUncheckpointed ==
    /\ Cardinality(savedRun \ ckpt) <= 1
    /\ (ipc \in {"loop", "done"} => savedRun \subseteq ckpt)

C4_Witness ==
    /\ ipc = "crashed"
    /\ Cardinality(savedRun) >= 2
    /\ Cardinality(savedRun \ ckpt) = 1

\* C5: a failed fetch never puts its key into the checkpoint, never makes
\* run() raise, and every pending dataset declared after the failed one has
\* still been attempted when run() returns.
C5_FailureIsNotFatal ==
    /\ ipc # "raised"
    /\ failedRun \cap (ckpt \cup completed) = {}
    /\ (ipc = "done" =>
          \A f \in failedRun : \A k \in DeclaredKeys \ loaded :
              DeclIndex(k) > DeclIndex(f) => k \in Range(fetchLog))

C5_Witness ==
    /\ ipc = "done"
    /\ \E f \in failedRun : \E k \in ckpt \ loaded : DeclIndex(k) > DeclIndex(f)

\* C21: across runs, failed fetches and crashes, every key of the persisted
\* checkpoint has its file hud_<key>.<format> in the raw store, and the
\* checkpoint changes only by the write that follows a saved download: the
\* write adds exactly the key whose fetch was the last one made and did not
\* fail, and whose file was in the raw store before the write.
C21_CheckpointOnlyAfterSave ==
    /\ [](\A k \in ckpt : k \in DeclaredKeys /\ RawFileName(k) \in rawStore)
    /\ [][ckpt' # ckpt =>
            /\ ipc = "saved"
            /\ ckpt' = ckpt \cup {pending[idx]}
            /\ fetchLog # <<>>
            /\ fetchLog[Len(fetchLog)] = pending[idx]
            /\ pending[idx] \notin failedRun
            /\ pending[idx] \in savedRun
            /\ RawFileName(pending[idx]) \in rawStore]_vars

C21_Witness ==
    /\ ipc = "done"
    /\ lostKey # NoKey
    /\ failedRun # {}
    /\ ckpt \ loaded # {}
    /\ loaded # {}
    /\ \A k \in ckpt : RawFileName(k) \in rawStore

\* C22: when ingestion is re-run for ever and every dataset's fetch succeeds
\* at some attempt, the persisted checkpoint eventually holds every declared
\* key, and keeps them.  The keys that failed in a run are pending in the run
\* started next; a run attempts its pending datasets in order, each at most
\* once, and has attempted all of them when it returns; and every started run
\* returns unless its process dies.
C22_RerunsComplete ==
    /\ <>[](DeclaredKeys \subseteq ckpt)
    /\ [][(ipc \in {"idle", "done", "crashed"}) =>
            (\A k \in failedRun : \E j \in 1..Len(pending') : pending'[j] = k)]_vars
    /\ [](/\ Len(fetchLog) <= Len(pending)
          /\ \A j \in 1..Len(fetchLog) : fetchLog[j] = pending[j]
          /\ (ipc = "done" => fetchLog = pending))
    /\ (ipc \in {"loop", "fetched", "saved"}) ~> (ipc \in {"done", "crashed"})

C22_Witness ==
    /\ ipc = "done"
    /\ DeclaredKeys \subseteq ckpt
    /\ loaded # {}
    /\ loaded # DeclaredKeys
    /\ failedRun = {}
    /\ lostKey # NoKey

\* The raw files the transform d reads in layout l.
RawFilesRead(l, d) ==
    CASE d = "fair_market_rents" -> FmrFiles
      [] d = "income_limits" -> IlFiles(l)
      [] d = "homeless_counts" -> PitFiles(l)

AllFilesRead == UNION {RawFilesRead(l, d) : l \in Layouts, d \in Transforms}

\* C24: every raw file a transform reads, in either layout, is the file name
\* under which the fetcher saves some declared key, and the file of every
\* declared key is read by some transform of each layout; so the raw store
\* never holds a file no transform reads, and once the checkpoint holds
\* every declared key every transform finds each of its files there.
C24_FilesReadAreFilesSaved ==
    /\ \A f \in AllFilesRead : \E k \in DeclaredKeys : f = RawFileName(k)
    /\ \A k \in DeclaredKeys : \A l \in Layouts :
          \E d \in Transforms : RawFileName(k) \in RawFilesRead(l, d)
    /\ rawStore \subseteq AllFilesRead
    /\ (DeclaredKeys \subseteq ckpt) => (AllFilesRead \subseteq rawStore)

C24_Witness ==
    /\ ipc = "done"
    /\ DeclaredKeys \subseteq ckpt
    /\ rawStore = {"hud_fmr_2024.xlsx", "hud_fmr_2025.xlsx",
                   "hud_income_limits_2024.xlsx", "hud_pit_2024.xlsb"}
    /\ AllFilesRead = rawStore

(***************************************************************************)
(* Properties of the transforms.                                           *)
(***************************************************************************)
\* test(table) has returned in this run.
Passed == tpc \in {"validated", "data_published", "done"}

\* The declared key tuple of a record of dataset d.
KeyOf(d, r) ==
    CASE d = "fair_market_rents" -> <<r.fips, r.fiscal_year>>
      [] d = "income_limits" -> <<r.fips>>
      [] d = "homeless_counts" -> <<r.coc_number, r.year, r.count_type>>

\* Two explicit records of T share their key.
HasDuplicateKey(d, T) ==
    LET e == ExplicitRecs(T)
    IN  \E j, k \in 1..Len(e) : j # k /\ KeyOf(d, e[j].rec) = KeyOf(d, e[k].rec)

\* The normalized frames the merger of dataset d is handed for input inp.
FramesOf(d, inp) ==
    CASE d = "fair_market_rents" ->
            {LoadFmrYear(inp.y2024, "2024").frame, LoadFmrYear(inp.y2025, "2025").frame}
      [] d = "income_limits" -> {BuildIl(inp).table}
      [] d = "homeless_counts" ->
            {ExtractShelterType(inp, y, t) :
                y \in {z \in 2007..2024 : ToString(z) \in inp.sheets},
                t \in Range(ShelterTypes)}

\* C6: a publisher call is made only for a table test() has returned on, and
\* when run() ends in an exception (a failed validation included) nothing was
\* published: the store still holds the prior version of every dataset.
C6_PublishOnlyValidated ==
    /\ pubLog # <<>> =>
          /\ TestOf(dataset, table)
          /\ published[dataset] = [version |-> "run", table |-> table]
    /\ pubLog = <<>> => published[dataset] = PriorVersion
    /\ tpc = "failed" =>
          /\ pubLog = <<>>
          /\ publishedMeta[dataset] = PriorMetadata
    /\ \A d \in Transforms \ {dataset} : published[d] = PriorVersion

C6_Witness ==
    /\ tpc = "failed"
    /\ table # <<>>
    /\ ~TestOf(dataset, table)
    /\ published[dataset] = PriorVersion

\* C7 (as stated): a run that has published its table has also published the
\* module's METADATA, unchanged.
C7_MetadataWithData ==
    (tpc = "done" /\ published[dataset].version = "run") =>
        publishedMeta[dataset] = Metadata(dataset)

\* C8 (as stated): an income-limits table test() has returned on has
\* eli_n <= vli_n <= li_n in every row for every household size n in 1..8.
C8_TiersOrderedForEverySize ==
    (dataset = "income_limits" /\ Passed) =>
        \A g \in Range(table) : \A n \in 1..8 :
            g.rec.eli[n] <= g.rec.vli[n] /\ g.rec.vli[n] <= g.rec.li[n]

YearsOfTable == {g.rec.year : g \in Range(table)}

\* C9 (as stated): a homeless-counts table test() has returned on has every
\* year within 2007..2024 and holds both 2007 and 2024.
C9_BothEndYears ==
    (dataset = "homeless_counts" /\ Passed) =>
        /\ YearsOfTable \subseteq {ToString(y) : y \in 2007..2024}
        /\ "2007" \in YearsOfTable
        /\ "2024" \in YearsOfTable

\* C9 (amended): a homeless-counts table test() has returned on has every
\* year within 2007..2024, holds 2024 and holds 2007 or 2008.
C9_YearsInRangeWithEarlyYear ==
    (dataset = "homeless_counts" /\ Passed) =>
        /\ YearsOfTable \subseteq {ToString(y) : y \in 2007..2024}
        /\ "2024" \in YearsOfTable
        /\ ("2007" \in YearsOfTable \/ "2008" \in YearsOfTable)

C9_Witness ==
    /\ dataset = "homeless_counts"
    /\ Passed
    /\ "2007" \notin YearsOfTable
    /\ "2008" \in YearsOfTable

\* C10: a published table has no two records with the same key tuple, and
\* when a frame handed to the merger holds a duplicated key the table still
\* holds it and test() does not return on it.
C10_UniqueKeysNoDeduplication ==
    /\ published[dataset].version = "run" =>
          ~HasDuplicateKey(dataset, published[dataset].table)
    /\ (table # <<>> /\ \E f \in FramesOf(dataset, input) : HasDuplicateKey(dataset, f)) =>
          /\ HasDuplicateKey(dataset, table)
          /\ ~Passed

C10_Witness ==
    /\ dataset = "homeless_counts"
    /\ tpc = "failed"
    /\ NumRows(table) >= PitMinRows
    /\ HasDuplicateKey(dataset, table)

\* The "min_rows" floor test() hands to validate for dataset d.
MinRowsOf(d) ==
    CASE d = "fair_market_rents" -> FmrMinRows
      [] d = "income_limits" -> IlMinRows
      [] d = "homeless_counts" -> PitMinRows

\* C11: a table with fewer rows than the floor of its dataset (9000 rents,
\* 4500 income limits, 10000 homeless counts) never gets past test(): no
\* publisher call is made and the store keeps the prior version.
C11_BelowFloorNotPublished ==
    /\ NumRows(table) < MinRowsOf(dataset) =>
          /\ ~Passed
          /\ pubLog = <<>>
          /\ published[dataset] = PriorVersion
    /\ published[dataset].version = "run" =>
          NumRows(published[dataset].table) >= MinRowsOf(dataset)

C11_Witness ==
    /\ tpc = "failed"
    /\ NumRows(table) = TruncatedRows
    /\ published[dataset] = PriorVersion

\* The source rows behind the explicit records of the table of dataset d, in
\* table order (neither normalizer drops or reorders rows).
SourceRows(d, inp) ==
    CASE d = "fair_market_rents" -> inp.y2024.rows \o inp.y2025.rows
      [] d = "income_limits" -> inp.rows

\* The zero-padded codes of dataset d: <<output field, source column, width>>.
CodeFields(d) ==
    CASE d = "fair_market_rents" ->
            {<<"state_fips", "state", 2>>, <<"fips", "fips", 9>>}
      [] d = "income_limits" ->
            {<<"state_fips", "state", 2>>, <<"county_fips", "county", 3>>,
             <<"fips", "fips", 9>>}

\* The cell holds a code: a natural number or a text of digits.
HasDigits(c) ==
    \/ c.t = "int" /\ c.n >= 0
    \/ c.t = "str" /\ AllDigits(c.s)

RECURSIVE Decimal(_)
\* The decimal digits of a natural number.
Decimal(n) ==
    IF n < 10 THEN SubSeq("0123456789", n + 1, n + 1)
    ELSE Decimal(n \div 10) \o SubSeq("0123456789", (n % 10) + 1, (n % 10) + 1)

DigitsOf(c) == IF c.t = "int" THEN Decimal(c.n) ELSE c.s

\* r is d behind as many zeros as bring it to length w, and d when d is not
\* shorter than w.
IsPadded(r, d, w) ==
    LET n == Len(r)
    IN  /\ n = (IF Len(d) < w THEN w ELSE Len(d))
        /\ SubSeq(r, n - Len(d) + 1, n) = d
        /\ \A j \in 1..(n - Len(d)) : SubSeq(r, j, j) = "0"

FmrSheetOf(inp, j) == IF j <= Len(inp.y2024.rows) THEN inp.y2024 ELSE inp.y2025

FmrRowOf(inp, j) ==
    IF j <= Len(inp.y2024.rows) THEN inp.y2024.rows[j]
    ELSE inp.y2025.rows[j - Len(inp.y2024.rows)]

\* C13: in a rents table the population of every record is an integer; it is
\* read from column pop2020 when the record's sheet has that column (also when
\* it has pop2022 too), and from pop2022 otherwise.
C13_PopulationVariantLookup ==
    (dataset = "fair_market_rents" /\ table # <<>>) =>
        LET e == ExplicitRecs(table)
        IN  /\ \A g \in Range(table) : g.rec.population \in Int
            /\ \A j \in 1..Len(e) :
                  LET sheet == FmrSheetOf(input, j)
                      row == FmrRowOf(input, j)
                  IN  IF "pop2020" \in sheet.popCols
                        THEN row.pop2020.t = "int" /\ e[j].rec.population = row.pop2020.n
                        ELSE /\ "pop2022" \in sheet.popCols
                             /\ row.pop2022.t = "int"
                             /\ e[j].rec.population = row.pop2022.n

C13_Witness ==
    /\ dataset = "fair_market_rents"
    /\ Passed
    /\ input.y2024.popCols = {"pop2020", "pop2022"}
    /\ input.y2025.popCols = {"pop2022"}
    /\ \E g \in Range(ExplicitRecs(table)) :
          g.rec.fiscal_year = "2024" /\ g.rec.population = 58805
    /\ \E g \in Range(ExplicitRecs(table)) :
          g.rec.fiscal_year = "2025" /\ g.rec.population = 59759

\* An exception left run() before `table` was built.
BuildRaised == tpc = "failed" /\ ~BuildTable(dataset, input).ok

\* The numeric cells of a rents row other than the population.
FmrOtherNumeric(r) == {r.metro, r.fmr_0, r.fmr_1, r.fmr_2, r.fmr_3, r.fmr_4}

\* The rows of the sheet of `year` that have an identifier.
RowsWithIdentifier(book, year) ==
    Len(SelectSeq(SheetRows(book, year), LAMBDA r : ~NoIdentifier(r.coc))) + book.bulk

\* The number of records of (year, shelterType) in T.
RecordsOf(T, year, shelterType) ==
    SumRows(SelectSeq(T, LAMBDA g : /\ g.rec.year = ToString(year)
                                    /\ g.rec.count_type = shelterType))

\* C14 (as stated): a rents sheet with neither population column does not
\* make the normalizer raise, and a homelessness sheet yields one record per
\* row that has an identifier for every shelter type, whichever count columns
\* (the total included) the sheet lacks.
C14_MissingColumnYieldsNull ==
    /\ ( /\ dataset = "fair_market_rents"
         /\ tpc # "start"
         /\ \A sheet \in {input.y2024, input.y2025} :
               /\ sheet.present
               /\ \A j \in 1..Len(sheet.rows) :
                     /\ \A c \in FmrOtherNumeric(sheet.rows[j]) : CanInt(c)
                     /\ \A pc \in sheet.popCols : CanInt(sheet.rows[j][pc]) )
        => ~BuildRaised
    /\ (dataset = "homeless_counts" /\ tpc # "start" /\ input.present) =>
          \A y \in Years : \A t \in Range(ShelterTypes) :
              ToString(y) \in input.sheets =>
                  RecordsOf(table, y, t) = RowsWithIdentifier(input, y)

\* C15 (as stated): whatever numeric cells of the raw file(s) are empty, no
\* normalizer raises (the files being there, every row having its identifier
\* and a rents sheet having a population column), and every count of a
\* homelessness record is an integer or null.
C15_EmptyNumericGivesNull ==
    /\ ( /\ dataset = "fair_market_rents"
         /\ \A sheet \in {input.y2024, input.y2025} :
               /\ sheet.present
               /\ sheet.popCols # {}
               /\ \A j \in 1..Len(sheet.rows) : ~NoIdentifier(sheet.rows[j].fips) )
        => ~BuildRaised
    /\ ( /\ dataset = "income_limits"
         /\ input.present
         /\ \A j \in 1..Len(input.rows) : ~NoIdentifier(input.rows[j].fips) )
        => ~BuildRaised
    /\ (dataset = "homeless_counts" /\ input.present) =>
          /\ ~BuildRaised
          /\ \A g \in Range(table) : \A f \in Range(CountFields) :
                g.rec.counts[f] = <<>> \/ (Len(g.rec.counts[f]) = 1 /\ g.rec.counts[f][1] \in Int)

\* The identifier cell of a source row of dataset d.
IdentifierOf(d, r) == IF d = "homeless_counts" THEN r.coc ELSE r.fips

\* C16 (as stated): a table holds one explicit record per source row that has
\* an identifier and none for the other rows (rents, income limits), and no
\* record of any table has an empty identifier or one made from an empty cell.
C16_NoRecordWithoutIdentifier ==
    table # <<>> =>
        /\ dataset \in {"fair_market_rents", "income_limits"} =>
              /\ Len(ExplicitRecs(table))
                    = Len(SelectSeq(SourceRows(dataset, input),
                                    LAMBDA r : ~NoIdentifier(IdentifierOf(dataset, r))))
              /\ \A g \in Range(ExplicitRecs(table)) : g.rec.fips # ZFill(AsStr(NaNCell), 9)
        /\ dataset = "homeless_counts" =>
              \A g \in Range(ExplicitRecs(table)) :
                  g.rec.coc_number \notin {"", AsStr(NaNCell)}

\* Column `col` contains pattern `p`, letter case aside.
Has(col, p) == Contains(Lower(col), Lower(p))

\* c is the first column of h, in sheet order, that contains the first
\* pattern of pats, in list order, that any column of h contains; no column
\* when no column contains any pattern.
IsLookupResult(h, pats, c) ==
    LET live == {i \in 1..Len(pats) : \E j \in 1..Len(h) : Has(h[j], pats[i])}
    IN  IF live = {} THEN c = NoCol
        ELSE \E i \in live :
                /\ \A k \in live : i <= k
                /\ \E j \in 1..Len(h) :
                      /\ h[j] = c
                      /\ Has(h[j], pats[i])
                      /\ \A m \in 1..(j - 1) : ~Has(h[m], pats[i])

\* c is the first column of h, in sheet order, that contains any pattern of
\* pats; no column when no column contains any pattern.
IsFirstColumnWithAnyPattern(h, pats, c) ==
    LET AnyIn(col) == \E i \in 1..Len(pats) : Has(col, pats[i])
    IN  IF \A j \in 1..Len(h) : ~AnyIn(h[j]) THEN c = NoCol
        ELSE \E j \in 1..Len(h) :
                /\ h[j] = c
                /\ AnyIn(h[j])
                /\ \A m \in 1..(j - 1) : ~AnyIn(h[m])

\* The column of each count field, per header row and shelter type, under
\* the two readings of the lookup.
LookupCols ==
    [h \in PitHeaders |-> [t \in Range(ShelterTypes) |-> [f \in Range(CountFields) |->
        CHOOSE c \in Range(h) \cup {NoCol} : IsLookupResult(h, Patterns(Prefix(t), f), c)]]]

ColumnOrderCols ==
    [h \in PitHeaders |-> [t \in Range(ShelterTypes) |-> [f \in Range(CountFields) |->
        CHOOSE c \in Range(h) \cup {NoCol} :
            IsFirstColumnWithAnyPattern(h, Patterns(Prefix(t), f), c)]]]

\* Every explicit record of the table carries, in each count field, the
\* number of the column cols[count_type][field] of its source row, and null
\* where that is no column.
RecordsReadFrom(cols) ==
    \A g \in Range(ExplicitRecs(table)) :
        \E r \in Range(input.rows) :
            /\ g.rec.coc_number = Strip(AsStr(r.coc))
            /\ \A f \in Range(CountFields) :
                  LET c == cols[g.rec.count_type][f]
                  IN  g.rec.counts[f] = IF c = NoCol THEN <<>> ELSE SafeInt(r.cells[c])

\* C18 (as stated): every count of a homelessness record is read from the
\* first column, in sheet order, whose name contains any of the field's
\* patterns (letter case aside), and is null when there is no such column.
C18_FirstColumnWithAnyPattern ==
    (dataset = "homeless_counts" /\ tpc # "start" /\ input.present) =>
        RecordsReadFrom(ColumnOrderCols[input.header])

\* C18 (amended): every count of a homelessness record is read from the first
\* column, in sheet order, whose name contains (letter case aside) the first
\* pattern, in list order, that any column contains, and is null when no
\* column contains any pattern.
C18_FirstPatternThenFirstColumn ==
    (dataset = "homeless_counts" /\ tpc # "start" /\ input.present) =>
        RecordsReadFrom(LookupCols[input.header])

C18_Witness ==
    /\ dataset = "homeless_counts"
    /\ Passed
    /\ "Sheltered Total" \in Range(input.header)
    /\ \E g \in Range(ExplicitRecs(table)) :
          /\ g.rec.count_type = "Sheltered"
          /\ g.rec.counts["total"] = <<120 + Len("Sheltered Homeless")>>
          /\ g.rec.counts["under_18"] = <<>>
    /\ \E g \in Range(ExplicitRecs(table)) :
          /\ g.rec.count_type = "Overall"
          /\ g.rec.counts["total"] = <<120 + Len("OVERALL HOMELESS")>>

\* The place of a record's year and of its shelter type in the loops of run().
YearNo(g) == ParseNat(g.rec.year)

TypeNo(g) == CHOOSE j \in 1..Len(ShelterTypes) : ShelterTypes[j] = g.rec.count_type

\* The rows of the sheet of `year` that yield a record for shelterType: those
\* with an identifier and a total.
KeptRows(book, year, shelterType) ==
    LET c == LookupCols[book.header][shelterType]["total"]
    IN  SelectSeq(SheetRows(book, year),
                  LAMBDA r : /\ ~NoIdentifier(r.coc)
                             /\ c # NoCol
                             /\ SafeInt(r.cells[c]) # <<>>)

\* C19: in the homeless-counts table the years ascend (each record's year is
\* at most the next record's, which orders every pair), within a year the
\* Overall records precede the Sheltered ones and these the Unsheltered ones,
\* and the explicit records of one (year, count_type) are those of the
\* sheet's rows that yield a record, in sheet order. In the rents table no
\* FY2025 record is followed by an FY2024 record and the number of records is
\* the sum of the numbers of rows of the two sheets.
C19_MergedOrder ==
    /\ (dataset = "homeless_counts" /\ tpc # "start" /\ input.present) =>
          /\ \A i \in 1..(Len(table) - 1) :
                \/ YearNo(table[i]) < YearNo(table[i + 1])
                \/ /\ YearNo(table[i]) = YearNo(table[i + 1])
                   /\ TypeNo(table[i]) <= TypeNo(table[i + 1])
          /\ \A y \in Years : \A t \in Range(ShelterTypes) :
                LET grp == SelectSeq(ExplicitRecs(table),
                                     LAMBDA g : /\ g.rec.year = ToString(y)
                                                /\ g.rec.count_type = t)
                    src == IF ToString(y) \in input.sheets
                             THEN KeptRows(input, y, t) ELSE <<>>
                    c == LookupCols[input.header][t]["total"]
                IN  /\ Len(grp) = Len(src)
                    /\ \A k \in 1..Len(grp) :
                          /\ grp[k].rec.coc_number = Strip(AsStr(src[k].coc))
                          /\ grp[k].rec.counts["total"] = SafeInt(src[k].cells[c])
    /\ (dataset = "fair_market_rents" /\ table # <<>>) =>
          /\ \A i \in 1..(Len(table) - 1) :
                ~(/\ table[i].rec.fiscal_year = "2025"
                  /\ table[i + 1].rec.fiscal_year = "2024")
          /\ NumRows(table) = Len(input.y2024.rows) + input.y2024.bulk
                                 + Len(input.y2025.rows) + input.y2025.bulk

C19_Witness ==
    /\ dataset = "homeless_counts"
    /\ Passed
    /\ \E i, j \in 1..Len(table) :
          /\ j = i + 1
          /\ ~table[i].bulk /\ ~table[j].bulk
          /\ table[i].rec.year = "2024" /\ table[j].rec.year = "2024"
          /\ table[i].rec.count_type = "Sheltered" /\ table[j].rec.count_type = "Sheltered"
          /\ table[i].rec.coc_number = "Total"
          /\ table[j].rec.coc_number = "AK-500"
    /\ \E g \in Range(table) : g.rec.year = "2007"

\* The segments of T that hold a record at one of the first n positions.
InFirst(T, n) == {j \in 1..Len(T) : RowsBefore(T, j) < n}

\* The checks of test() that are made on every record of the table.
FullSetChecks(d, r) ==
    CASE d = "fair_market_rents" ->
            /\ ValidYear(r.fiscal_year)
            /\ r.fmr_0br > 0 /\ r.fmr_1br > 0 /\ r.fmr_2br > 0
            /\ r.fmr_3br > 0 /\ r.fmr_4br > 0
            /\ r.metro \in {0, 1}
      [] d = "income_limits" ->
            /\ ValidYear(r.fiscal_year)
            /\ r.median_income > 0 /\ r.eli[4] > 0 /\ r.vli[4] > 0 /\ r.li[4] > 0
            /\ r.eli[4] <= r.vli[4] /\ r.vli[4] <= r.li[4]
            /\ r.metro \in {0, 1}
      [] d = "homeless_counts" ->
            /\ ValidYear(r.year)
            /\ r.count_type \in {"Overall", "Sheltered", "Unsheltered"}

\* A CoC number of the expected form: at least 6 characters and a dash.
WellFormedCoc(x) == Len(x) >= 6 /\ Contains(x, "-")

\* C20: a table test() has returned on has no record, at any position, that
\* fails a year, positivity, set-membership or tier-ordering check; a
\* homeless-counts table test() has returned on has well-formed CoC numbers
\* in its first 10 records; and a homeless-counts table test() has raised on
\* was not rejected for a malformed CoC number past the first 10 records:
\* some other check fails on it.
C20_FullSetChecksPrefixFormatCheck ==
    /\ Passed =>
          \A g \in Range(table) : FullSetChecks(dataset, g.rec)
    /\ (dataset = "homeless_counts" /\ Passed) =>
          \A j \in InFirst(table, 10) : WellFormedCoc(table[j].rec.coc_number)
    /\ (dataset = "homeless_counts" /\ tpc = "failed" /\ table # <<>>) =>
          \/ \E j \in InFirst(table, 10) : ~WellFormedCoc(table[j].rec.coc_number)
          \/ \E g \in Range(table) : ~FullSetChecks(dataset, g.rec)
          \/ \E g \in Range(table) : g.rec.counts["total"] = <<>>
          \/ HasDuplicateKey(dataset, table)
          \/ NumRows(table) < PitMinRows
          \/ ~PitYearsCovered(YearsOfTable)
          \/ DistinctCocs(table) < MinCocs

C20_Witness ==
    /\ dataset = "homeless_counts"
    /\ Passed
    /\ \E j \in 1..Len(table) :
          /\ j \notin InFirst(table, 10)
          /\ ~WellFormedCoc(table[j].rec.coc_number)

\* The count type a column's name speaks of.
CategoryOf(col) ==
    CASE Has(col, "Unsheltered") -> "Unsheltered"
      [] Has(col, "Sheltered") -> "Sheltered"
      [] Has(col, "Overall") -> "Overall"
      [] OTHER -> "none"

\* C23: when the homelessness table holds records of a count type, every
\* count field of that type was resolved to no column or to a column of the
\* type's own category; for 'Sheltered' in particular never to a column whose
\* name contains 'Unsheltered'.
C23_FieldsFromOwnCategory ==
    (dataset = "homeless_counts" /\ tpc # "start" /\ input.present) =>
        \A g \in Range(table) : \A f \in Range(CountFields) :
            LET c == ResolvedCols[input.header][g.rec.count_type][f]
            IN  c # NoCol => CategoryOf(c) = g.rec.count_type

(***************************************************************************)
(* Properties of main().                                                   *)
(***************************************************************************)
\* The flags and the name given on a command line parse_args accepted.
GaveIngestOnly == \E j \in 1..Len(argv) : Abbreviates(argv[j], "--ingest-only")

GaveTransformOnly == \E j \in 1..Len(argv) : Abbreviates(argv[j], "--transform-only")

GaveName == \E j \in 1..Len(argv) : argv[j] \in Range(Choices)

TheName == argv[CHOOSE j \in 1..Len(argv) : argv[j] \in Range(Choices)]

\* C17 (as stated): when main() has returned, its calls were: the ingestion
\* alone if --ingest-only was given, the three transforms alone if
\* --transform-only was given, the named transform alone if a name was given,
\* the ingestion and then the three transforms if nothing was given.
C17_PhasesForEveryCombination ==
    mpc = "done" =>
        /\ GaveIngestOnly => calls = <<"ingest">>
        /\ GaveTransformOnly => calls = TransformOrder
        /\ GaveName => calls = <<TheName>>
        /\ argv = <<>> => calls = <<"ingest">> \o TransformOrder

\* C17 (amended): the four cases hold when at most one kind of argument is
\* given; --ingest-only together with --transform-only or with a name runs
\* nothing, and --transform-only together with a name runs that transform.
C17_PhasesByArguments ==
    mpc = "done" =>
        /\ (GaveIngestOnly /\ ~GaveTransformOnly /\ ~GaveName) => calls = <<"ingest">>
        /\ (GaveTransformOnly /\ ~GaveIngestOnly /\ ~GaveName) => calls = TransformOrder
        /\ (GaveName /\ ~GaveIngestOnly) => calls = <<TheName>>
        /\ (~GaveIngestOnly /\ ~GaveTransformOnly /\ ~GaveName) =>
              calls = <<"ingest">> \o TransformOrder
        /\ (GaveIngestOnly /\ (GaveTransformOnly \/ GaveName)) => calls = <<>>

C17_Witness ==
    /\ mpc = "done"
    /\ GaveIngestOnly
    /\ GaveName
    /\ calls = <<>>

\* The transforms main() has called, in call order.
TransformCalls == SelectSeq(calls, LAMBDA c : c # "ingest")

IsPrefix(a, b) == Len(a) <= Len(b) /\ a = SubSeq(b, 1, Len(a))

OrderNo(d) ==
    CASE d = "fair_market_rents" -> 1
      [] d = "income_limits" -> 2
      [] d = "homeless_counts" -> 3

IsPublished(d) ==
    published[d].version = "run" /\ publishedMeta[d] = Metadata(d)

IsUntouched(d) ==
    published[d] = PriorVersion /\ publishedMeta[d] = PriorMetadata

\* C25: in a run of the full pipeline (no transform name given) main() calls
\* the transforms in the order fair_market_rents, income_limits,
\* homeless_counts, each at most once; when a transform has raised, main()
\* has ended with it as its last call, every transform before it is
\* published, and it and every transform after it has published nothing; a
\* main() that returned from the transform phase has published all three.
C25_OrderAndAbortOnRaise ==
    (args.ok /\ args.transform = NoTransform) =>
        /\ IsPrefix(TransformCalls,
                    <<"fair_market_rents", "income_limits", "homeless_counts">>)
        /\ \A d \in Transforms :
              IF OrderNo(d) < Len(TransformCalls) THEN IsPublished(d)
              ELSE IF OrderNo(d) > Len(TransformCalls) THEN IsUntouched(d)
              ELSE IF mpc = "raised" THEN IsUntouched(d) ELSE IsPublished(d)
        /\ (mpc = "raised" /\ TransformCalls # <<>>) =>
              /\ todo # <<>>
              /\ Head(todo) = TransformCalls[Len(TransformCalls)]
              /\ ~ENABLED MainNext
        /\ (mpc = "done" /\ ShouldTransform(args)) => Len(TransformCalls) = 3

C25_Witness ==
    /\ mpc = "raised"
    /\ argv = <<>>
    /\ calls = <<"ingest", "fair_market_rents", "income_limits">>
    /\ IsPublished("fair_market_rents")
    /\ IsUntouched("income_limits")
    /\ IsUntouched("homeless_counts")

=============================================================================
